---- MODULE Spec2Model ----
(***************************************************************************)
(* State-machine model of lisa/util/__init__.py: run_in_threads and        *)
(* _cancel_threads, together with the thread pool (ThreadPoolExecutor and  *)
(* its Future objects) they drive.                                         *)
(*                                                                         *)
(* The main thread is modelled statement by statement through pc; the     *)
(* worker threads of the pool are the actions PoolStart and PoolFinish,    *)
(* which interleave freely with the main thread.                           *)
(***************************************************************************)
EXTENDS Integers, Sequences, FiniteSets, TLC

\* ---------------------------------------------------------------- bounds
MaxTasks == 3
MaxWorkers == 2
MaxCalls == 5

\* ------------------------------------------------------------- exceptions
\* The exception in flight is a number: NoError, CancelledError, or the
\* index i of the task whose own error it is.
NoError == 0
CancelledError == 0 - 1

VARIABLES
    methods,            \* the batch: methods[i] is "ok" or "boom"
    max_workers,        \* the max_workers argument as passed by the caller
    pool_workers,       \* the pool's worker cap (ThreadPoolExecutor._max_workers)
    completed_callback, \* TRUE iff a callback was supplied
    state,              \* state[i]: state of the Future of task i
    futures,            \* the local list `futures` (task indices)
    results,            \* the local list `results`
    pc,                 \* position of the main thread
    k,                  \* index of the running for-loop (scan or sweep)
    cur,                \* the future bound to `future` in the loop body
    success_futures,    \* _cancel_threads' local list
    phase,              \* "try", "except" or "finally"
    err,                \* exception in flight (NoError if none)
    interrupted,        \* a KeyboardInterrupt was delivered in the try body
    polledErr,          \* error raised by line 229 (NoError if none)
    sweepErr,           \* first task error raised by _cancel_threads
    awaited,            \* futures a sweep blocked on (line 192) while running
    cbCalls,            \* cbCalls[i]: done-callback invocations with future i
    cbForced,           \* cbForced[i]: completed_callback(False) calls made for i
    \* an InitializableMixin object and the calls made on it
    is_initialized,     \* the field _is_initialized
    stack,              \* positions of the active initialize() calls, top first
    exc,                \* exception in flight: "none", "Exception", "BaseException"
    calls,              \* initialize() calls made so far
    invocations,        \* _initialize invocations made so far
    okReturned          \* an _initialize invocation has returned without error

vars == <<methods, max_workers, pool_workers, completed_callback, state,
          futures, results, pc, k, cur, success_futures, phase, err,
          interrupted, polledErr, sweepErr, awaited, cbCalls, cbForced,
          is_initialized, stack, exc, calls, invocations, okReturned>>

mixin == <<is_initialized, stack, exc, calls, invocations, okReturned>>

runVars == <<methods, max_workers, pool_workers, completed_callback, state,
             futures, results, pc, k, cur, success_futures, phase, err,
             interrupted, polledErr, sweepErr, awaited, cbCalls, cbForced>>

inputs == <<methods, max_workers, pool_workers, completed_callback>>

\* ------------------------------------------------------------ the futures
Tasks == 1..Len(methods)

\* Future.done(): CANCELLED or FINISHED.
Done(st) == st \in {"success", "failed", "cancelled"}

Running(st) == {i \in DOMAIN st : st[i] = "running"}

\* Future.exception() is truthy: the task raised.
Failures == {i \in Tasks : methods[i] = "boom"}

\* list.remove(x): drop the first occurrence of x.
RemoveNothing(s, x) == s
RECURSIVE Remove(_, _)
Remove(s, x) ==
    IF s = <<>> THEN <<>>
    ELSE IF Head(s) = x THEN Tail(s)
    ELSE <<Head(s)>> \o Remove(Tail(s), x)

Range(s) == {s[i] : i \in DOMAIN s}

\* lines 211-213: a non-positive max_workers means one worker per method.
EffectiveWorkersNoNegative(mw, n) == IF mw = 0 THEN n ELSE mw
EffectiveWorkersUncapped(mw, n) == n
EffectiveWorkersZeroSerial(mw, n) == IF mw <= 0 THEN 1 ELSE mw
EffectiveWorkers(mw, n) == IF mw <= 0 THEN n ELSE mw

\* lines 72-74: InitializableMixin.__init__; no call made yet.
MixinStart ==
    /\ is_initialized = FALSE
    /\ stack = <<>>
    /\ exc = "none"
    /\ calls = 0
    /\ invocations = 0
    /\ okReturned = FALSE

\* ------------------------------------------------------------------- Init
\* The state after line 217: every method submitted in order, the callback
\* registered on every future, nothing started yet.
Init ==
    /\ methods \in UNION {[1..n -> {"ok", "boom"}] : n \in 1..MaxTasks}
    /\ max_workers \in (0 - 1)..MaxWorkers
    /\ pool_workers = EffectiveWorkers(max_workers, Len(methods))
    /\ completed_callback \in BOOLEAN
    /\ state = [i \in Tasks |-> "pending"]
    /\ futures = [i \in Tasks |-> i]
    /\ results = <<>>
    /\ pc = "while"
    /\ k = 0
    /\ cur = 0
    /\ success_futures = <<>>
    /\ phase = "try"
    /\ err = NoError
    /\ interrupted = FALSE
    /\ polledErr = NoError
    /\ sweepErr = NoError
    /\ awaited = {}
    /\ cbCalls = [i \in Tasks |-> 0]
    /\ cbForced = [i \in Tasks |-> 0]
    /\ MixinStart

\* Future._invoke_callbacks: the registered done-callback runs once.
Notify(i) ==
    cbCalls' = IF completed_callback
               THEN [cbCalls EXCEPT ![i] = @ + 1] ELSE cbCalls

\* --------------------------------------------------------------- the pool
\* A worker dequeues work items in submission order and marks the future
\* RUNNING; i can be marked while earlier items are still PENDING only if
\* each of those is held by another worker.
PoolStart(i) ==
    /\ state[i] = "pending"
    /\ Cardinality(Running(state))
         + Cardinality({j \in Tasks : j < i /\ state[j] = "pending"})
       < pool_workers
    /\ state' = [state EXCEPT ![i] = "running"]
    /\ UNCHANGED <<awaited, inputs, mixin, futures, results, pc, k, cur, success_futures,
                   phase, err, interrupted, polledErr, sweepErr, cbCalls, cbForced>>

\* The method returns or raises; the worker stores the outcome and runs
\* the future's callbacks.
PoolFinish(i) ==
    /\ state[i] = "running"
    /\ state' = [state EXCEPT
                   ![i] = IF methods[i] = "boom" THEN "failed" ELSE "success"]
    /\ Notify(i)
    /\ UNCHANGED <<awaited, inputs, mixin, futures, results, pc, k, cur, success_futures,
                   phase, err, interrupted, polledErr, sweepErr, cbForced>>

\* ------------------------------------------------- run_in_threads, try body
\* Entering _cancel_threads: success_futures = [] and the for loop starts.
EnterSweep(ph) ==
    /\ phase' = ph
    /\ pc' = "sweep"
    /\ k' = 1
    /\ success_futures' = <<>>

\* line 219: while any(not x.done() for x in futures); when the test fails
\* the try body ends normally and the finally clause runs.
WhileTest ==
    /\ pc = "while"
    /\ IF \E j \in DOMAIN futures : ~Done(state[futures[j]])
       THEN /\ pc' = "scan"
            /\ k' = 1
            /\ UNCHANGED <<phase, success_futures>>
       ELSE EnterSweep("finally")
    /\ UNCHANGED <<awaited, inputs, mixin, state, futures, results, cur, err, interrupted,
                   polledErr, sweepErr, cbCalls, cbForced>>

\* lines 222-227 and 231-232: one iteration of `for future in futures`.
\* A done future is removed from the list; an exhausted loop sleeps and
\* goes back to the while test.
ScanStep ==
    /\ pc = "scan"
    /\ IF k > Len(futures)
       THEN /\ pc' = "while"
            /\ UNCHANGED <<k, cur, futures>>
       ELSE IF Done(state[futures[k]])
       THEN /\ cur' = futures[k]
            /\ futures' = Remove(futures, futures[k])
            /\ pc' = "pull"
            /\ k' = k
       ELSE /\ k' = k + 1
            /\ UNCHANGED <<pc, cur, futures>>
    /\ UNCHANGED <<awaited, inputs, mixin, state, results, success_futures, phase, err,
                   interrupted, polledErr, sweepErr, cbCalls, cbForced>>

\* lines 229-230: results.append(future.result()); break.  A failed future
\* raises here: the exception is no KeyboardInterrupt, so control goes to
\* the finally clause with the exception in flight.
Pull ==
    /\ pc = "pull"
    /\ IF state[cur] = "success"
       THEN /\ results' = Append(results, cur)
            /\ pc' = "while"
            /\ UNCHANGED <<k, success_futures, phase, err, polledErr>>
       ELSE /\ err' = cur
            /\ polledErr' = cur
            /\ EnterSweep("finally")
            /\ UNCHANGED results
    /\ UNCHANGED <<awaited, inputs, mixin, state, futures, cur, interrupted, sweepErr, cbCalls,
                   cbForced>>

\* line 234: a KeyboardInterrupt delivered to the main thread anywhere in
\* the try body (between two statements) is caught; line 238 starts the
\* first sweep.
KeyboardInterrupt ==
    /\ pc \in {"while", "scan", "pull"}
    /\ ~interrupted
    /\ interrupted' = TRUE
    /\ EnterSweep("except")
    /\ UNCHANGED <<awaited, inputs, mixin, state, futures, results, cur, err, polledErr, sweepErr,
                   cbCalls, cbForced>>

\* ---------------------------------------------------------- _cancel_threads
\* An exception e leaves _cancel_threads.  Raised from the except clause
\* (line 238) it skips line 239 and the finally clause runs with e in
\* flight; raised from the finally clause (line 243) it replaces whatever
\* was in flight and leaves the with block.
SweepRaiseKeepFirst(e) ==
    /\ err' = IF err # NoError THEN err ELSE e
    /\ sweepErr' = IF sweepErr = NoError /\ e # CancelledError
                   THEN e ELSE sweepErr
    /\ IF phase = "except"
       THEN EnterSweep("finally")
       ELSE /\ pc' = "exit"
            /\ UNCHANGED <<phase, k, success_futures>>
SweepRaise(e) ==
    /\ err' = e
    /\ sweepErr' = IF sweepErr = NoError /\ e # CancelledError
                   THEN e ELSE sweepErr
    /\ IF phase = "except"
       THEN EnterSweep("finally")
       ELSE /\ pc' = "exit"
            /\ UNCHANGED <<phase, k, success_futures>>

\* line 194: success_futures.append(future)
SweepBucketDrop(succ, f) == succ
SweepBucketPrepend(succ, f) == <<f>> \o succ
SweepBucket(succ, f) == Append(succ, f)

\* lines 181-194 up to the call of future.result() on line 192: one
\* iteration of `for future in futures`.
\*   failed     line 184 re-raises the task's error
\*   cancelled  done() is true and exception() raises CancelledError
\*   pending    cancel() succeeds and runs the done-callback; line 192 then
\*              raises CancelledError
\*   running    cancel() fails, the callback is called with False, line 192
\*              blocks
\*   success    line 194
SweepVisit ==
    /\ pc = "sweep"
    /\ k <= Len(futures)
    /\ LET f == futures[k] IN
       CASE state[f] = "failed" ->
              /\ SweepRaise(f)
              /\ UNCHANGED <<state, cur, awaited, cbCalls, cbForced>>
         [] state[f] = "cancelled" ->
              /\ SweepRaise(CancelledError)
              /\ UNCHANGED <<state, cur, awaited, cbCalls, cbForced>>
         [] state[f] = "pending" ->
              /\ state' = [state EXCEPT ![f] = "cancelled"]
              /\ Notify(f)
              /\ SweepRaise(CancelledError)
              /\ UNCHANGED <<cur, awaited, cbForced>>
         [] state[f] = "running" ->
              /\ cbForced' = IF completed_callback
                             THEN [cbForced EXCEPT ![f] = @ + 1]
                             ELSE cbForced
              /\ cur' = f
              /\ awaited' = awaited \cup {f}
              /\ pc' = "sweep_result"
              /\ UNCHANGED <<state, k, success_futures, phase, err, sweepErr,
                             cbCalls>>
         [] state[f] = "success" ->
              /\ success_futures' = SweepBucket(success_futures, f)
              /\ k' = k + 1
              /\ UNCHANGED <<state, cur, pc, phase, err, sweepErr, awaited,
                             cbCalls,
                             cbForced>>
    /\ UNCHANGED <<inputs, mixin, futures, results, interrupted, polledErr>>

\* line 192: the value of future.result() is not used and the future is
\* not added to success_futures.
AwaitedBucketKeep(succ, f) == Append(succ, f)
AwaitedBucket(succ, f) == succ

\* line 192: future.result() returns once the running future has finished;
\* its value is dropped, its error is raised.
SweepResult ==
    /\ pc = "sweep_result"
    /\ Done(state[cur])
    /\ IF state[cur] = "failed"
       THEN SweepRaise(cur)
       ELSE /\ success_futures' = AwaitedBucket(success_futures, cur)
            /\ pc' = "sweep"
            /\ k' = k + 1
            /\ UNCHANGED <<phase, err, sweepErr>>
    /\ UNCHANGED <<awaited, inputs, mixin, state, futures, results, cur, interrupted,
                   polledErr, cbCalls, cbForced>>

\* line 196 and the assignment of lines 238 / 243.  After the finally
\* clause an exception still in flight is re-raised; otherwise line 244
\* starts.
SweepReturn ==
    /\ pc = "sweep"
    /\ k > Len(futures)
    /\ futures' = success_futures
    /\ pc' = IF phase = "except" THEN "shutdown"
             ELSE IF err # NoError THEN "exit"
             ELSE "collect"
    /\ k' = 1
    /\ UNCHANGED <<awaited, inputs, mixin, state, results, cur, success_futures, phase, err,
                   interrupted, polledErr, sweepErr, cbCalls, cbForced>>

\* ThreadPoolExecutor.shutdown(wait=True) returns when every worker has
\* exited, i.e. when every work item has been run or found cancelled.
ShutdownNoWait(st) == TRUE
ShutdownMayReturn(st) == \A i \in DOMAIN st : Done(st[i])

\* line 239: pool.shutdown(True), then the finally clause.
PoolShutdown ==
    /\ pc = "shutdown"
    /\ ShutdownMayReturn(state)
    /\ EnterSweep("finally")
    /\ UNCHANGED <<awaited, inputs, mixin, state, futures, results, cur, err, interrupted,
                   polledErr, sweepErr, cbCalls, cbForced>>

\* lines 244-247: results.append(future.result()) for the futures the last
\* sweep returned, then return results.
Collect ==
    /\ pc = "collect"
    /\ IF k > Len(futures)
       THEN /\ pc' = "exit"
            /\ UNCHANGED <<k, results, err>>
       ELSE IF state[futures[k]] = "success"
       THEN /\ results' = Append(results, futures[k])
            /\ k' = k + 1
            /\ UNCHANGED <<pc, err>>
       ELSE /\ err' = IF state[futures[k]] = "failed"
                      THEN futures[k] ELSE CancelledError
            /\ pc' = "exit"
            /\ UNCHANGED <<k, results>>
    /\ UNCHANGED <<awaited, inputs, mixin, state, futures, cur, success_futures, phase,
                   interrupted, polledErr, sweepErr, cbCalls, cbForced>>

\* line 213: leaving the with block calls shutdown(wait=True); run_in_threads
\* then returns results (err = NoError) or raises err.
WithExit ==
    /\ pc = "exit"
    /\ ShutdownMayReturn(state)
    /\ pc' = "done"
    /\ UNCHANGED <<awaited, inputs, mixin, state, futures, results, k, cur, success_futures,
                   phase, err, interrupted, polledErr, sweepErr, cbCalls, cbForced>>

Next ==
    \/ \E i \in Tasks : PoolStart(i)
    \/ \E i \in Tasks : PoolFinish(i)
    \/ WhileTest
    \/ ScanStep
    \/ Pull
    \/ KeyboardInterrupt
    \/ SweepVisit
    \/ SweepResult
    \/ SweepReturn
    \/ PoolShutdown
    \/ Collect
    \/ WithExit

Spec == Init /\ [][Next]_vars

\* The main thread keeps running (its statements, the KeyboardInterrupt
\* apart, which may never come), an idle worker takes the next queued work
\* item, and every started method returns or raises.
MainThread ==
    \/ WhileTest
    \/ ScanStep
    \/ Pull
    \/ SweepVisit
    \/ SweepResult
    \/ SweepReturn
    \/ PoolShutdown
    \/ Collect
    \/ WithExit

FairSpec ==
    /\ Spec
    /\ WF_vars(MainThread)
    /\ WF_vars(\E i \in Tasks : PoolStart(i))
    /\ WF_vars(\E i \in Tasks : PoolFinish(i))

\* ------------------------------------------------------------ run outcome
Ended == pc = "done"
Returned == Ended /\ err = NoError
Raised == Ended /\ err # NoError

TypeOK ==
    /\ pc \in {"while", "scan", "pull", "sweep", "sweep_result", "shutdown",
               "collect", "exit", "done"}
    /\ phase \in {"try", "except", "finally"}
    /\ \A i \in Tasks : state[i] \in {"pending", "running", "success",
                                      "failed", "cancelled"}
    /\ Range(futures) \subseteq Tasks
    /\ Range(results) \subseteq Tasks
    /\ err \in {NoError, CancelledError} \cup Tasks

\* ------------------------------------------------- InitializableMixin
\* An object of a class with InitializableMixin, called sequentially by one
\* thread; its _initialize may return, raise, or call initialize() again.
\* stack holds one position per active initialize() call:
\*   "check"    line 86, about to test the flag
\*   "set"      line 88, about to set the flag
\*   "body"     line 89, inside _initialize
\*   "handler"  line 91, inside the except clause
Top == Head(stack)
Replace(pos) == <<pos>> \o Tail(stack)

\* The stack after an exception e has left the top call.  A caller that is
\* itself an _initialize is left as on lines 89-90: an Exception enters its
\* except clause, any other BaseException leaves it too.
RECURSIVE Leave(_, _)
Leave(st, e) ==
    IF Tail(st) = <<>> THEN <<>>
    ELSE IF e = "Exception" THEN <<"handler">> \o Tail(Tail(st))
    ELSE Leave(Tail(st), e)

\* line 86: if not self._is_initialized
NeedsInitializeAlways(flag) == TRUE
NeedsInitialize(flag) == ~flag

\* The caller, or the running _initialize, calls initialize(); a caller
\* that got an exception from the previous call has handled it.
CallInitialize ==
    /\ calls < MaxCalls
    /\ \/ stack = <<>>
       \/ stack # <<>> /\ Top = "body" /\ exc = "none"
    /\ stack' = <<"check">> \o stack
    /\ calls' = calls + 1
    /\ exc' = "none"
    /\ UNCHANGED <<runVars, is_initialized, invocations, okReturned>>

\* line 86: an initialized object makes the call return at once.
CheckFlag ==
    /\ stack # <<>> /\ Top = "check"
    /\ stack' = IF NeedsInitialize(is_initialized)
                THEN Replace("set") ELSE Tail(stack)
    /\ UNCHANGED <<runVars, is_initialized, exc, calls, invocations,
                   okReturned>>

\* lines 88-89: the flag is set before _initialize is invoked.
SetFlag ==
    /\ stack # <<>> /\ Top = "set"
    /\ is_initialized' = TRUE
    /\ invocations' = invocations + 1
    /\ stack' = Replace("body")
    /\ UNCHANGED <<runVars, exc, calls, okReturned>>

\* line 89: _initialize returns; initialize() returns after it.
InitializeReturns ==
    /\ stack # <<>> /\ Top = "body" /\ exc = "none"
    /\ okReturned' = TRUE
    /\ stack' = Tail(stack)
    /\ UNCHANGED <<runVars, is_initialized, exc, calls, invocations>>

\* lines 89-90: _initialize raises.  `except Exception` catches an
\* Exception; any other BaseException (KeyboardInterrupt, SystemExit)
\* passes through and leaves initialize().
InitializeRaises(kind) ==
    /\ stack # <<>> /\ Top = "body" /\ exc = "none"
    /\ exc' = kind
    /\ stack' = IF kind = "Exception" THEN Replace("handler")
                ELSE Leave(stack, kind)
    /\ UNCHANGED <<runVars, is_initialized, calls, invocations, okReturned>>

\* lines 91-92: the flag is reset and the exception raised again.
Handler ==
    /\ stack # <<>> /\ Top = "handler"
    /\ is_initialized' = FALSE
    /\ stack' = Leave(stack, exc)
    /\ UNCHANGED <<runVars, exc, calls, invocations, okReturned>>

MixinNext ==
    \/ CallInitialize
    \/ CheckFlag
    \/ SetFlag
    \/ InitializeReturns
    \/ \E kind \in {"Exception", "BaseException"} : InitializeRaises(kind)
    \/ Handler

\* One object, no run_in_threads call under way.
MixinInit ==
    /\ Init
    /\ methods = <<"ok">>
    /\ max_workers = 0
    /\ completed_callback = FALSE

MixinSpec == MixinInit /\ [][MixinNext]_vars

\* ------------------------------------------------------------------ claims
SubmissionOrder == [i \in Tasks |-> i]

\* C1: when every task succeeds and no KeyboardInterrupt arrives, the
\* returned list has task i's result at position i.
C1_OrderPreservation ==
    (Returned /\ ~interrupted /\ Failures = {}) => results = SubmissionOrder

\* C2: once a KeyboardInterrupt was caught by the try body, run_in_threads
\* ends by raising and never returns a list.
C2_InterruptAlwaysRaises ==
    (Ended /\ interrupted) => err # NoError

C4_FailureAlwaysRaises ==
    (Ended /\ \E i \in Tasks : state[i] = "failed") => err # NoError

\* C5: the error raised by line 229 in the polling loop is the error that
\* leaves run_in_threads.
C5_FirstObservedErrorWins ==
    (Ended /\ polledErr # NoError) => err = polledErr

\* C6: with exactly one failing method and no KeyboardInterrupt,
\* run_in_threads raises that method's error, never CancelledError.
C6_SingleFailurePropagates ==
    (Ended /\ ~interrupted /\ Cardinality(Failures) = 1) => err \in Failures

C8_NoOrphanedWork ==
    Ended => \A i \in Tasks : Done(state[i])

\* C8 witness: the run ended by an error of the polling loop, and a task
\* that was never collected nor awaited by a sweep has still run to
\* completion.
C8_Witness ==
    /\ Raised /\ polledErr # NoError
    /\ \E i \in Tasks : /\ state[i] = "success"
                        /\ i \notin Range(results)
                        /\ completed_callback /\ cbForced[i] = 0

\* C9: with a callback supplied, at the end of the run the callback has
\* been invoked exactly once per future, and never with the forced status
\* False.
C9_CallbackExactlyOnce ==
    (Ended /\ completed_callback) =>
        \A i \in Tasks : cbCalls[i] = 1 /\ cbForced[i] = 0

\* C10: once the KeyboardInterrupt has been caught and the cancellation
\* sweep of line 238 has ended (the time the Runner needs to reach every
\* future granted), no pending future becomes running.
C10_NoStartAfterInterrupt ==
    [][(interrupted /\ phase = "finally") =>
         \A i \in Tasks : ~(state[i] = "pending" /\ state'[i] = "running")]_vars

\* C11: with max_workers = k > 0 and more than k tasks, at most k futures
\* are running at any time; the others have not left the pending state
\* early.
C11_WorkerCapHonored ==
    (max_workers > 0 /\ Len(methods) > max_workers) =>
        Cardinality(Running(state)) <= max_workers

\* C11 witness: the cap is reached while a task still waits in the queue.
C11_Witness ==
    /\ max_workers > 0
    /\ Len(methods) > max_workers
    /\ Cardinality(Running(state)) = max_workers
    /\ \E i \in Tasks : state[i] = "pending"

\* C12: with max_workers = 0 the pool's cap is the number of tasks, and a
\* pending task never has to wait for a worker: the pool can start it
\* whatever the other tasks are doing.
C12_ZeroMeansOnePerTask ==
    max_workers = 0 =>
        /\ pool_workers = Len(methods)
        /\ \A i \in Tasks : state[i] = "pending" => ENABLED PoolStart(i)

\* C12 witness: with max_workers = 0 all tasks of a batch of at least two
\* are running at the same time.
C12_Witness ==
    /\ max_workers = 0
    /\ Len(methods) >= 2
    /\ \A i \in Tasks : state[i] = "running"

\* The sweep of the finally clause is about to return (line 196) after the
\* sweep of the except clause returned normally: it was called on the
\* first sweep's own return value, and every future was settled before it
\* started (line 239).
SecondSweepReturns ==
    /\ interrupted /\ err = NoError
    /\ phase = "finally" /\ pc = "sweep" /\ k > Len(futures)

C14_SweepCoversEveryHandle ==
    pc = "exit" => \A j \in DOMAIN futures : state[futures[j]] # "pending"

NoDuplicates(s) == \A i, j \in DOMAIN s : s[i] = s[j] => i = j

\* C15 (as stated): in every state results holds a future's outcome at
\* most once, and no future whose outcome is in results is still in the
\* list futures.
C15_NoDoubleCollection ==
    /\ NoDuplicates(results)
    /\ Range(results) \cap Range(futures) = {}

\* C15 (amended): results holds a future's outcome at most once in every
\* state, and a collected future is out of the list futures as long as the
\* polling loop or a sweep can still run; only the final loop of lines
\* 244-246 appends outcomes of futures it leaves in the list.
C15_NoDoubleCollectionBeforeFinalLoop ==
    /\ NoDuplicates(results)
    /\ Range(results) \cap Range(futures) # {} =>
           (pc \in {"collect", "exit", "done"} /\ err = NoError)

\* C15 witness: an interrupted run went through both sweeps and the final
\* loop and returned at least two results, each once.
C15_Witness ==
    /\ Returned /\ interrupted
    /\ Len(results) >= 2
    /\ Range(results) \cap Range(futures) # {}
    /\ Range(results) \ Range(futures) # {}

\* C16: once a sweep has raised the error of a failed future, that error
\* is the one that leaves run_in_threads; it replaces an error of the
\* polling loop and the interrupt, and nothing replaces it afterwards.
C16_CleanupErrorWins ==
    (Ended /\ sweepErr # NoError) => err = sweepErr

\* C16 witness: the polling loop raised one task's error, the finalization
\* sweep then found another task failed, and the run ended with the latter.
C16_Witness ==
    /\ Ended
    /\ polledErr # NoError
    /\ sweepErr # NoError
    /\ sweepErr # polledErr
    /\ err = sweepErr

\* C17: with a fair pool and a fair main thread every run ends, by
\* returning or by raising, with or without a KeyboardInterrupt, and a run
\* without interrupt has not ended while a future is unfinished.
C17_Termination ==
    /\ <>Ended
    /\ [](Ended /\ ~interrupted => \A i \in Tasks : Done(state[i]))

\* C17 witness: a run ended although its sweep had to block on a running
\* future after a KeyboardInterrupt.
C17_Witness ==
    /\ Ended /\ interrupted
    /\ \E i \in Tasks : cbForced[i] > 0

AtCaller == stack = <<>> /\ calls > 0

\* C19 (as stated, the part about a raising _initialize): whenever a call
\* of initialize() ended with an exception raised by _initialize, the
\* object is left uninitialized, so that the next call invokes _initialize
\* again.
C19_RaiseLeavesUninitialized ==
    (AtCaller /\ exc # "none") => ~is_initialized

\* C19 (amended): _initialize is never invoked again once an invocation
\* has returned without error; an Exception raised by _initialize reaches
\* the caller and leaves the object uninitialized, so that the next call
\* invokes _initialize again; any other BaseException reaches the caller
\* too but leaves the object marked initialized.
C19_OneTimeInitialization ==
    /\ [][okReturned => invocations' = invocations]_vars
    /\ [][(stack # <<>> /\ Top = "check" /\ is_initialized) =>
            stack' = Tail(stack)]_stack
    /\ [](AtCaller /\ exc = "Exception" => ~is_initialized)
    /\ [](AtCaller /\ exc = "BaseException" => is_initialized)
    /\ [](AtCaller /\ okReturned => is_initialized /\ exc = "none")

\* C19 witness: _initialize raised an Exception, a later call invoked it
\* again, it made a re-entrant initialize() call and returned, and a
\* further call found the object initialized.
C19_Witness ==
    /\ AtCaller
    /\ okReturned
    /\ invocations >= 2
    /\ calls >= invocations + 2

====
